---------------------------- MODULE Spec2Model ----------------------------
(***************************************************************************)
(* Model of the three image-to-markdown batch converters of image2md:      *)
(*   "g"  img2md_g.py  (Gemini, thread pool of 4 workers)                  *)
(*   "a"  images.py    (Anthropic, sequential loop)                        *)
(*   "m"  img2md_m.py  (Mistral, sequential loop)                          *)
(* File names are sequences of one-character strings, texts are sequences  *)
(* of Unicode code points, file contents are sequences of bytes.           *)
(* Path matching follows the POSIX behaviour of glob/fnmatch               *)
(* (case-sensitive).                                                       *)
(***************************************************************************)
EXTENDS Integers, Sequences, FiniteSets, TLC

(***************************************************************************)
(* Bounds of the model.                                                    *)
(***************************************************************************)
\* largest number of directory entries of a run of Spec
MaxEntries == 3
\* number of image files of the directory of SpecCap (more than the pool has workers)
NumCapTasks == 5
\* number of times SpecFn writes the same artifact
MaxWrites == 2

(***************************************************************************)
(* String helpers (str.lower, str.endswith, str.rfind, str.strip).         *)
(***************************************************************************)
UpperLetters == <<"A", "B", "C", "D", "E", "F", "G", "H", "I", "J", "K", "L", "M",
                  "N", "O", "P", "Q", "R", "S", "T", "U", "V", "W", "X", "Y", "Z">>

LowerLetters == <<"a", "b", "c", "d", "e", "f", "g", "h", "i", "j", "k", "l", "m",
                  "n", "o", "p", "q", "r", "s", "t", "u", "v", "w", "x", "y", "z">>

LowerChar(c) ==
    IF \E k \in 1..Len(UpperLetters) : UpperLetters[k] = c
    THEN LowerLetters[CHOOSE k \in 1..Len(UpperLetters) : UpperLetters[k] = c]
    ELSE c

lower(s) == [k \in 1..Len(s) |-> LowerChar(s[k])]

endswith(s, suf) ==
    /\ Len(s) >= Len(suf)
    /\ SubSeq(s, Len(s) - Len(suf) + 1, Len(s)) = suf

\* 1-based position of the last "." of s, 0 when there is none
rfind_dot(s) ==
    IF \E k \in 1..Len(s) : s[k] = "."
    THEN CHOOSE k \in 1..Len(s) : s[k] = "." /\ \A j \in (k+1)..Len(s) : s[j] # "."
    ELSE 0

\* pathlib: PurePath.suffix of a final path component
suffix(name) ==
    LET j == rfind_dot(name)
    IN  IF 1 < j /\ j < Len(name) THEN SubSeq(name, j, Len(name)) ELSE <<>>

\* pathlib: PurePath.stem
stem(name) ==
    LET j == rfind_dot(name)
    IN  IF 1 < j /\ j < Len(name) THEN SubSeq(name, 1, j - 1) ELSE name

\* pathlib: PurePath.with_suffix
with_suffix(name, suf) ==
    IF suffix(name) = <<>>
    THEN name \o suf
    ELSE SubSeq(name, 1, Len(name) - Len(suffix(name))) \o suf

IsSpace(cp) == cp \in {9, 10, 11, 12, 13, 28, 29, 30, 31, 32, 133, 160}

RECURSIVE lstrip(_)
lstrip(t) == IF t # <<>> /\ IsSpace(Head(t)) THEN lstrip(Tail(t)) ELSE t

RECURSIVE rstrip(_)
rstrip(t) ==
    IF t # <<>> /\ IsSpace(t[Len(t)]) THEN rstrip(SubSeq(t, 1, Len(t) - 1)) ELSE t

strip(t) == rstrip(lstrip(t))

(***************************************************************************)
(* UTF-8, the encoding of the output files.                                *)
(***************************************************************************)
IsSurrogate(cp) == cp >= 55296 /\ cp <= 57343

utf8_char(cp) ==
    IF cp < 128 THEN <<cp>>
    ELSE IF cp < 2048 THEN <<192 + (cp \div 64), 128 + (cp % 64)>>
    ELSE <<224 + (cp \div 4096), 128 + ((cp \div 64) % 64), 128 + (cp % 64)>>

RECURSIVE utf8_encode(_)
utf8_encode(t) == IF t = <<>> THEN <<>> ELSE utf8_char(Head(t)) \o utf8_encode(Tail(t))

\* str.encode("utf-8") raises UnicodeEncodeError on a lone surrogate
encodable(t) == \A k \in 1..Len(t) : ~IsSurrogate(t[k])

RECURSIVE utf8_decode(_)
utf8_decode(b) ==
    IF b = <<>> THEN <<>>
    ELSE IF b[1] < 128 THEN <<b[1]>> \o utf8_decode(Tail(b))
    ELSE IF b[1] < 224
         THEN <<(b[1] - 192) * 64 + (b[2] - 128)>> \o utf8_decode(SubSeq(b, 3, Len(b)))
    ELSE <<(b[1] - 224) * 4096 + (b[2] - 128) * 64 + (b[3] - 128)>>
             \o utf8_decode(SubSeq(b, 4, Len(b)))

(***************************************************************************)
(* Program constants.                                                      *)
(***************************************************************************)
Progs == {"g", "a", "m"}

EXT_JPG  == <<".", "j", "p", "g">>
EXT_JPEG == <<".", "j", "p", "e", "g">>
EXT_PNG  == <<".", "p", "n", "g">>
EXT_GIF  == <<".", "g", "i", "f">>
EXT_WEBP == <<".", "w", "e", "b", "p">>
EXT_MD   == <<".", "m", "d">>

\* faulty variant: one format listed twice
SUPPORTED_FORMATS_twice == <<EXT_JPG, EXT_JPEG, EXT_PNG, EXT_GIF, EXT_WEBP, EXT_PNG>>

\* img2md_g.py: SUPPORTED_FORMATS, a tuple walked in this order
SUPPORTED_FORMATS == <<EXT_JPG, EXT_JPEG, EXT_PNG, EXT_GIF, EXT_WEBP>>

\* images.py, img2md_m.py: supported_extensions
supported_extensions == {EXT_JPG, EXT_JPEG, EXT_PNG}

\* ThreadPoolExecutor(max_workers=4)
max_workers == 4

POPIS_MD == <<"_", "p", "o", "p", "i", "s", ".", "m", "d">>
OUTPUT_DIR == <<"v", "y", "s", "t", "u", "p", "y", "/">>

(***************************************************************************)
(* Pure functions of the programs.                                         *)
(***************************************************************************)
\* faulty variant: the extension is looked up without .lower()
get_mime_type_case_sensitive(p, file_path) ==
    LET ext == suffix(file_path)
    IN  IF ext = EXT_JPG \/ ext = EXT_JPEG THEN "image/jpeg"
        ELSE IF ext = EXT_PNG THEN "image/png"
        ELSE IF p = "g" /\ ext = EXT_GIF THEN "image/gif"
        ELSE IF p = "g" /\ ext = EXT_WEBP THEN "image/webp"
        ELSE "image/jpeg"

\* get_mime_type (images.py, img2md_m.py) and the mime_types lookup of
\* image_to_markdown (img2md_g.py): dict.get(ext, 'image/jpeg')
get_mime_type(p, file_path) ==
    LET ext == lower(suffix(file_path))
    IN  IF ext = EXT_JPG \/ ext = EXT_JPEG THEN "image/jpeg"
        ELSE IF ext = EXT_PNG THEN "image/png"
        ELSE IF p = "g" /\ ext = EXT_GIF THEN "image/gif"
        ELSE IF p = "g" /\ ext = EXT_WEBP THEN "image/webp"
        ELSE "image/jpeg"

\* glob.glob(os.path.join(input_dir, "*" + ext)): fnmatch of the entry name,
\* entries whose name starts with "." are hidden from a pattern that starts with "*"
glob_match(name, ext) ==
    /\ name # <<>>
    /\ name[1] # "."
    /\ endswith(name, ext)

\* the filter of the list comprehension over directory.iterdir()
iterdir_match(e) ==
    /\ e.is_file
    /\ lower(suffix(e.name)) \in supported_extensions

\* faulty variant: the stem is taken as name.split(".")[0]
output_path_first_dot(p, name) ==
    LET j == IF \E k \in 1..Len(name) : name[k] = "."
             THEN CHOOSE k \in 1..Len(name) :
                      name[k] = "." /\ \A i \in 1..(k - 1) : name[i] # "."
             ELSE Len(name) + 1
        first == SubSeq(name, 1, j - 1)
    IN  IF p = "g" THEN OUTPUT_DIR \o first \o POPIS_MD ELSE first \o EXT_MD

\* the output path of an image: vystupy/<stem>_popis.md (img2md_g.py),
\* <stem>.md beside the source (images.py, img2md_m.py)
output_path(p, name) ==
    IF p = "g" THEN OUTPUT_DIR \o stem(name) \o POPIS_MD
    ELSE with_suffix(name, EXT_MD)

\* the test that decides whether a returned text is saved:
\* "not markdown_content or not markdown_content.strip()" then
\* "if markdown_content:" (img2md_g.py); "if description:" (images.py, img2md_m.py)
is_usable(p, t) ==
    IF p = "g" THEN t # <<>> /\ strip(t) # <<>>
    ELSE t # <<>>


(***************************************************************************)
(* The environment: the directory, the credential, the backend, the disk.  *)
(***************************************************************************)
Entry(name, is_file) == [name |-> name, is_file |-> is_file]

\* directory entries a run of Spec may find: regular files with a supported,
\* an upper-case, a gemini-only and an unsupported extension, and a directory
\* whose name ends in .png
Universe ==
    << Entry(<<"a">> \o EXT_JPG, TRUE),
       Entry(<<"a">> \o EXT_PNG, TRUE),
       Entry(<<"p", ".", "J", "P", "G">>, TRUE),
       Entry(<<"x">> \o EXT_PNG, FALSE),
       Entry(<<"n", ".", "t", "x", "t">>, TRUE),
       Entry(<<"c">> \o EXT_GIF, TRUE) >>

RECURSIVE pick(_, _)
pick(k, S) ==
    IF k > Len(Universe) THEN <<>>
    ELSE (IF k \in S THEN <<Universe[k]>> ELSE <<>>) \o pick(k + 1, S)

Reverse(s) == [i \in 1..Len(s) |-> s[Len(s) + 1 - i]]

\* the directory as the operating system lists it: at most n entries, none
\* twice, in one order or in the opposite order
Listings(n) ==
    UNION { { pick(1, S), Reverse(pick(1, S)) } :
              S \in { T \in SUBSET (1..Len(Universe)) : Cardinality(T) <= n } }

\* the directory of SpecCap: NumCapTasks image files
CapListing == [k \in 1..NumCapTasks |-> Entry(<<LowerLetters[k]>> \o EXT_PNG, TRUE)]

\* API_KEY / api_key="Insert_API_Key_Here" / MistralConfig.API_KEY: the key the
\* user pasted ("valid") or the placeholder the source ships with
Creds == {"valid", "placeholder"}

AllFaults == {"disk", "backend"}

\* texts a backend may return: empty, whitespace only, a markdown text
GoodText == <<233>>
Texts == { <<>>, <<32>>, GoodText }

NoResp == [kind |-> "none", err |-> "", text |-> <<>>]
ErrResp(k) == [kind |-> "error", err |-> k, text |-> <<>>]
TextResp(t) == [kind |-> "text", err |-> "", text |-> t]

\* what client.models.generate_content / client.messages.create /
\* requests.post + raise_for_status may answer
BackendResponses(c, f) ==
    IF c # "valid" THEN { ErrResp("AuthError") }
    ELSE IF "backend" \in f
         THEN { ErrResp("Transport") } \cup { TextResp(t) : t \in Texts }
         ELSE { TextResp(GoodText) }

\* whether open(image_path, "rb") + read() succeeds
ReadOutcomes(e, f) ==
    IF ~e.is_file THEN {FALSE}
    ELSE IF "disk" \in f THEN BOOLEAN ELSE {TRUE}

\* what open(path, "w", encoding="utf-8") + write may do: -1 the open fails,
\* n >= 0 the file is truncated and holds the first n bytes at close
SaveOutcomes(t, f) ==
    IF ~encodable(t) THEN (IF "disk" \in f THEN {-1, 0} ELSE {0})
    ELSE IF "disk" \in f THEN -1..Len(utf8_encode(t))
    ELSE { Len(utf8_encode(t)) }

EmptyFs == [p \in {} |-> <<>>]

\* images.py, img2md_m.py: image_processing_<timestamp>.log of setup_logging
LOG_FILE == <<"i", "m", "a", "g", "e", "_", "p", "r", "o", "c", "e", "s", "s", "i", "n", "g",
              ".", "l", "o", "g">>

\* logging.FileHandler(log_filename) opens the log file with mode "a"
open_log(files) ==
    [q \in DOMAIN files \cup {LOG_FILE} |-> IF q \in DOMAIN files THEN files[q] ELSE <<>>]

OldContent == <<79>>

\* outputs left by an earlier run
old_outputs(p, l) ==
    [q \in { output_path(p, l[k].name) : k \in DOMAIN l } |-> OldContent]

(***************************************************************************)
(* The artifact writer.                                                    *)
(***************************************************************************)
\* faulty variant: the file is opened with mode "a"
write_file_append(files, path, t, o) ==
    IF o < 0 THEN files
    ELSE [q \in DOMAIN files \cup {path} |->
            IF q = path
            THEN (IF path \in DOMAIN files THEN files[path] ELSE <<>>)
                     \o (IF encodable(t) THEN SubSeq(utf8_encode(t), 1, o) ELSE <<>>)
            ELSE files[q]]

\* the file system after open(path, "w") + f.write(text) with outcome o
write_file(files, path, t, o) ==
    IF o < 0 THEN files
    ELSE [q \in DOMAIN files \cup {path} |->
            IF q = path
            THEN (IF encodable(t) THEN SubSeq(utf8_encode(t), 1, o) ELSE <<>>)
            ELSE files[q]]

\* save_markdown's return value; in images.py / img2md_m.py whether the
\* with-block ended without an exception
write_ok(t, o) == encodable(t) /\ o = Len(utf8_encode(t))

(***************************************************************************)
(* The enumerator.                                                         *)
(***************************************************************************)
RECURSIVE glob(_, _)
glob(l, ext) ==
    IF l = <<>> THEN <<>>
    ELSE (IF glob_match(Head(l).name, ext) THEN <<Head(l)>> ELSE <<>>)
             \o glob(Tail(l), ext)

RECURSIVE find_image_files(_, _)
find_image_files(l, formats) ==
    IF formats = <<>> THEN <<>>
    ELSE glob(l, Head(formats)) \o find_image_files(l, Tail(formats))

RECURSIVE iterdir_filter(_)
iterdir_filter(l) ==
    IF l = <<>> THEN <<>>
    ELSE (IF iterdir_match(Head(l)) THEN <<Head(l)>> ELSE <<>>)
             \o iterdir_filter(Tail(l))

enumerate(p, l) ==
    IF p = "g" THEN find_image_files(l, SUPPORTED_FORMATS) ELSE iterdir_filter(l)

(***************************************************************************)
(* The lines that report a failure of one image.                           *)
(***************************************************************************)
\* how a response fails the task, "" when the text goes on to be saved:
\* an exception of the call, or a text the program does not save
response_failure(p, r) ==
    IF r.kind = "error" THEN "backend"
    ELSE IF is_usable(p, r.text) THEN ""
    ELSE "blank"

\* the number of console or log lines that report the failure and name the
\* file. img2md_g.py prints "Chyba při zpracování <image_path>" for an
\* exception, "Varování: ... pro: <image_path>" for a blank text and
\* "Chyba při ukládání <output_path>" for a failed save; images.py and
\* img2md_m.py log "Error processing <image_path>" and "Error saving <name>"
\* and have no else branch for "if description:"
error_lines(p, failure) ==
    IF failure = "" THEN 0
    ELSE IF failure = "blank" /\ p # "g" THEN 0
    ELSE 1

(***************************************************************************)
(* State.                                                                  *)
(***************************************************************************)
VARIABLES
    prog,                   \* which of the three programs runs
    cred,                   \* the credential compiled into it
    faults,                 \* the faults the environment may inject
    listing,                \* the input directory, in listing order
    fs,                     \* output files: path -> bytes
    pc,                     \* position of the main thread
    image_files,            \* the enumerated entries
    work,                   \* per enumerated entry: its task
    idx,                    \* index of the submit loop / of the for loop
    successful_conversions, \* img2md_g.py: the counter of main
    summary,                \* img2md_g.py: the printed summary
    fn                      \* harness of the pure-function specification

vars == <<prog, cred, faults, listing, fs, pc, image_files, work, idx,
          successful_conversions, summary, fn>>

NoSummary == [printed |-> FALSE, totalCount |-> 0, successCount |-> 0, failureCount |-> 0]

NewTask == [st |-> "new", resp |-> NoResp, result |-> "pending", dispatched |-> 0,
            reads |-> 0, read |-> "no", calls |-> 0, writes |-> 0, saved |-> "no",
            collected |-> 0, lines |-> 0]

FnIdle == [step |-> "off", name |-> <<>>, text |-> <<>>, mime |-> "", oks |-> <<>>,
           existed |-> FALSE, name2 |-> <<>>, out |-> <<>>, out2 |-> <<>>]

Tasks == DOMAIN work

InFlight == { i \in Tasks : work[i].st = "calling" }

\* the state after construction, before main() runs
Start(l) ==
    /\ prog \in Progs
    /\ cred \in Creds
    /\ listing = l
    /\ fs \in { EmptyFs, old_outputs(prog, l) }
    /\ pc = IF prog = "g" THEN "makedirs" ELSE "choose"
    /\ image_files = <<>>
    /\ work = <<>>
    /\ idx = 1
    /\ successful_conversions = 0
    /\ summary = NoSummary
    /\ fn = FnIdle

Init ==
    /\ faults = AllFaults
    /\ \E l \in Listings(MaxEntries) : Start(l)

InitCap ==
    /\ faults = {}
    /\ Start(CapListing)

(***************************************************************************)
(* Startup, common to the three programs.                                  *)
(***************************************************************************)
\* what the user may type at the model prompt; "^C" is a keyboard interrupt
ChoiceInputs == {"0", "1", "2", "3", "4", "x", "^C"}

\* MODEL_OPTIONS (img2md_g.py), available_models (images.py), MistralModel
ValidChoices(p) == IF p = "g" THEN {"1", "2"} ELSE {"1", "2", "3"}

\* img2md_g.py main: os.makedirs(output_dir, exist_ok=True), return on OSError
Makedirs ==
    /\ pc = "makedirs"
    /\ \E ok \in (IF "disk" \in faults THEN BOOLEAN ELSE {TRUE}) :
         pc' = IF ok THEN "choose" ELSE "done"
    /\ UNCHANGED <<prog, cred, faults, listing, fs, image_files, work, idx,
                   successful_conversions, summary, fn>>

\* get_model_choice / the while True loop of main: an invalid input prompts
\* again; an interrupt makes img2md_g.py return and ends the other two with the
\* uncaught KeyboardInterrupt. The credential is not looked at. After a valid
\* choice images.py and img2md_m.py construct the ImageProcessor, whose
\* setup_logging opens the log file.
ChooseModel ==
    /\ pc = "choose"
    /\ \E input \in ChoiceInputs :
         /\ pc' = IF input \in ValidChoices(prog) THEN "enumerate"
                  ELSE IF input = "^C" THEN (IF prog = "g" THEN "done" ELSE "crashed")
                  ELSE "choose"
         /\ fs' = IF input \in ValidChoices(prog) /\ prog # "g" THEN open_log(fs) ELSE fs
    /\ UNCHANGED <<prog, cred, faults, listing, image_files, work, idx,
                   successful_conversions, summary, fn>>

\* the "Find image files" block of main / of process_current_directory /
\* of process_directory, with its "if not image_files: return"
Enumerate ==
    /\ pc = "enumerate"
    /\ image_files' = enumerate(prog, listing)
    /\ work' = [i \in DOMAIN image_files' |-> NewTask]
    /\ idx' = 1
    /\ pc' = IF image_files' = <<>> THEN "done"
             ELSE IF prog = "g" THEN "submit" ELSE "loop"
    /\ UNCHANGED <<prog, cred, faults, listing, fs, successful_conversions, summary, fn>>

(***************************************************************************)
(* img2md_g.py: the thread pool.                                           *)
(***************************************************************************)
\* executor.submit(process_image, image_path, ...) for one image_path
Submit ==
    /\ pc = "submit"
    /\ work' = [work EXCEPT ![idx].st = "queued", ![idx].dispatched = @ + 1]
    /\ idx' = idx + 1
    /\ pc' = IF idx = Len(image_files) THEN "collect" ELSE "submit"
    /\ UNCHANGED <<prog, cred, faults, listing, fs, image_files,
                   successful_conversions, summary, fn>>

\* tasks a pool thread is working on
Running == { i \in Tasks : work[i].st \in {"calling", "saving"} }

\* faulty variant: a thread per work item
pool_has_free_thread_unbounded == TRUE

\* faulty variant: a thread that finished its work item never takes another
pool_has_free_thread_once ==
    Cardinality({ i \in Tasks : work[i].st \in {"calling", "saving", "done"} }) < max_workers

\* a pool thread is free to take a work item: at most max_workers threads exist
pool_has_free_thread == Cardinality(Running) < max_workers

\* the work queue is first in, first out
head_of_queue(i) ==
    /\ work[i].st = "queued"
    /\ \A j \in Tasks : j < i => work[j].st # "queued"

\* a pool thread takes task i: process_image -> image_to_markdown up to the
\* request: the client is created, the file is read, the mime type is looked
\* up; an exception of the read is caught and gives None, hence False
WorkerStart(i) ==
    /\ prog = "g"
    /\ head_of_queue(i)
    /\ pool_has_free_thread
    /\ \E readable \in ReadOutcomes(image_files[i], faults) :
         work' = [work EXCEPT
                    ![i].reads = @ + 1,
                    ![i].read = IF readable THEN "ok" ELSE "failed",
                    ![i].lines = @ + error_lines(prog, IF readable THEN "" ELSE "read"),
                    ![i].calls = IF readable THEN @ + 1 ELSE @,
                    ![i].st = IF readable THEN "calling" ELSE "done",
                    ![i].result = IF readable THEN @ ELSE "False"]
    /\ UNCHANGED <<prog, cred, faults, listing, fs, pc, image_files, idx,
                   successful_conversions, summary, fn>>

\* faulty variant: a call that raised is sent again
WorkerReturn_retry(i) ==
    /\ prog = "g"
    /\ work[i].st = "calling"
    /\ \E r \in BackendResponses(cred, faults) :
         LET save == r.kind = "text" /\ is_usable(prog, r.text)
             again == r.kind = "error" /\ work[i].calls < 3
         IN  work' = [work EXCEPT
                        ![i].resp = r,
                        ![i].calls = IF again THEN @ + 1 ELSE @,
                        ![i].lines = @ + error_lines(prog, response_failure(prog, r)),
                        ![i].st = IF save THEN "saving" ELSE IF again THEN "calling" ELSE "done",
                        ![i].result = IF save \/ again THEN @ ELSE "False"]
    /\ UNCHANGED <<prog, cred, faults, listing, fs, pc, image_files, idx,
                   successful_conversions, summary, fn>>

\* generate_content returns or raises; image_to_markdown gives None for an
\* exception and for an empty or whitespace-only text, process_image then False
WorkerReturn(i) ==
    /\ prog = "g"
    /\ work[i].st = "calling"
    /\ \E r \in BackendResponses(cred, faults) :
         LET save == r.kind = "text" /\ is_usable(prog, r.text)
         IN  work' = [work EXCEPT
                        ![i].resp = r,
                        ![i].lines = @ + error_lines(prog, response_failure(prog, r)),
                        ![i].st = IF save THEN "saving" ELSE "done",
                        ![i].result = IF save THEN @ ELSE "False"]
    /\ UNCHANGED <<prog, cred, faults, listing, fs, pc, image_files, idx,
                   successful_conversions, summary, fn>>

\* faulty variant: the worker thread adds its own success to the counter of main
WorkerSave_counts(i) ==
    /\ prog = "g"
    /\ work[i].st = "saving"
    /\ LET t == work[i].resp.text
           path == output_path(prog, image_files[i].name)
       IN  \E o \in SaveOutcomes(t, faults) :
             /\ fs' = write_file(fs, path, t, o)
             /\ work' = [work EXCEPT
                           ![i].writes = @ + 1,
                           ![i].saved = IF write_ok(t, o) THEN "ok" ELSE "failed",
                           ![i].lines =
                               @ + error_lines(prog, IF write_ok(t, o) THEN "" ELSE "save"),
                           ![i].st = "done",
                           ![i].result = IF write_ok(t, o) THEN "True" ELSE "False"]
             /\ successful_conversions' =
                  IF write_ok(t, o) THEN successful_conversions + 1
                  ELSE successful_conversions
    /\ UNCHANGED <<prog, cred, faults, listing, pc, image_files, idx, summary, fn>>

\* faulty variant: process_image drops what save_markdown returned
WorkerSave_ignores_result(i) ==
    /\ prog = "g"
    /\ work[i].st = "saving"
    /\ LET t == work[i].resp.text
           path == output_path(prog, image_files[i].name)
       IN  \E o \in SaveOutcomes(t, faults) :
             /\ fs' = write_file(fs, path, t, o)
             /\ work' = [work EXCEPT
                           ![i].writes = @ + 1,
                           ![i].saved = IF write_ok(t, o) THEN "ok" ELSE "failed",
                           ![i].lines =
                               @ + error_lines(prog, IF write_ok(t, o) THEN "" ELSE "save"),
                           ![i].st = "done",
                           ![i].result = "True"]
    /\ UNCHANGED <<prog, cred, faults, listing, pc, image_files, idx,
                   successful_conversions, summary, fn>>

\* save_markdown(markdown_content, output_path), the return value of process_image
WorkerSave(i) ==
    /\ prog = "g"
    /\ work[i].st = "saving"
    /\ LET t == work[i].resp.text
           path == output_path(prog, image_files[i].name)
       IN  \E o \in SaveOutcomes(t, faults) :
             /\ fs' = write_file(fs, path, t, o)
             /\ work' = [work EXCEPT
                           ![i].writes = @ + 1,
                           ![i].saved = IF write_ok(t, o) THEN "ok" ELSE "failed",
                           ![i].lines =
                               @ + error_lines(prog, IF write_ok(t, o) THEN "" ELSE "save"),
                           ![i].st = "done",
                           ![i].result = IF write_ok(t, o) THEN "True" ELSE "False"]
    /\ UNCHANGED <<prog, cred, faults, listing, pc, image_files, idx,
                   successful_conversions, summary, fn>>

\* faulty variant: a finished future is yielded again
as_completed_again(i) == work[i].st = "done"

\* as_completed yields a finished future the main thread has not seen yet
as_completed(i) == work[i].st = "done" /\ work[i].collected = 0

\* the body of "for future in as_completed(futures)"
Collect(i) ==
    /\ pc = "collect"
    /\ as_completed(i)
    /\ work' = [work EXCEPT ![i].collected = @ + 1]
    /\ successful_conversions' =
         IF work[i].result = "True" THEN successful_conversions + 1
         ELSE successful_conversions
    /\ UNCHANGED <<prog, cred, faults, listing, fs, pc, image_files, idx, summary, fn>>

\* faulty variant: the loop over as_completed ends at the first future
all_collected_first == \E i \in Tasks : work[i].collected >= 1

\* as_completed is exhausted once every future has been yielded
all_collected == \A i \in Tasks : work[i].collected >= 1

\* the "Print summary" block of main
Summary ==
    /\ pc = "collect"
    /\ all_collected
    /\ summary' = [printed |-> TRUE,
                   totalCount |-> Len(image_files),
                   successCount |-> successful_conversions,
                   failureCount |-> Len(image_files) - successful_conversions]
    /\ pc' = "done"
    /\ UNCHANGED <<prog, cred, faults, listing, fs, image_files, work, idx,
                   successful_conversions, fn>>

(***************************************************************************)
(* images.py, img2md_m.py: the for loop.                                   *)
(***************************************************************************)
\* the loop moves to the next image_file, or ends
next_iteration == IF idx = Len(image_files) THEN "done" ELSE "loop"

\* faulty variant: process_image without its try/except, the exception of the read
\* ends the process
LoopStart_uncaught ==
    /\ pc = "loop"
    /\ work[idx].st = "new"
    /\ \E readable \in ReadOutcomes(image_files[idx], faults) :
         /\ work' = [work EXCEPT
                       ![idx].dispatched = @ + 1,
                       ![idx].reads = @ + 1,
                       ![idx].read = IF readable THEN "ok" ELSE "failed",
                       ![idx].lines = @ + error_lines(prog, IF readable THEN "" ELSE "read"),
                       ![idx].calls = IF readable THEN @ + 1 ELSE @,
                       ![idx].st = IF readable THEN "calling" ELSE "done",
                       ![idx].result = IF readable THEN @ ELSE "False"]
         /\ idx' = idx
         /\ pc' = IF readable THEN "loop" ELSE "crashed"
    /\ UNCHANGED <<prog, cred, faults, listing, fs, image_files,
                   successful_conversions, summary, fn>>

\* faulty variant: the output file is opened for writing before the image is
\* processed
LoopStart_opens_first ==
    /\ pc = "loop"
    /\ work[idx].st = "new"
    /\ \E readable \in ReadOutcomes(image_files[idx], faults) :
         /\ work' = [work EXCEPT
                       ![idx].dispatched = @ + 1,
                       ![idx].reads = @ + 1,
                       ![idx].read = IF readable THEN "ok" ELSE "failed",
                       ![idx].lines = @ + error_lines(prog, IF readable THEN "" ELSE "read"),
                       ![idx].calls = IF readable THEN @ + 1 ELSE @,
                       ![idx].st = IF readable THEN "calling" ELSE "done",
                       ![idx].result = IF readable THEN @ ELSE "False"]
         /\ idx' = IF readable \/ idx = Len(image_files) THEN idx ELSE idx + 1
         /\ pc' = IF readable THEN "loop" ELSE next_iteration
    /\ fs' = write_file(fs, output_path(prog, image_files[idx].name), <<>>, 0)
    /\ UNCHANGED <<prog, cred, faults, listing, image_files,
                   successful_conversions, summary, fn>>

\* process_image up to the request: encode_image reads the file, get_mime_type;
\* an exception is logged and gives None
LoopStart ==
    /\ pc = "loop"
    /\ work[idx].st = "new"
    /\ \E readable \in ReadOutcomes(image_files[idx], faults) :
         /\ work' = [work EXCEPT
                       ![idx].dispatched = @ + 1,
                       ![idx].reads = @ + 1,
                       ![idx].read = IF readable THEN "ok" ELSE "failed",
                       ![idx].lines = @ + error_lines(prog, IF readable THEN "" ELSE "read"),
                       ![idx].calls = IF readable THEN @ + 1 ELSE @,
                       ![idx].st = IF readable THEN "calling" ELSE "done",
                       ![idx].result = IF readable THEN @ ELSE "False"]
         /\ idx' = IF readable \/ idx = Len(image_files) THEN idx ELSE idx + 1
         /\ pc' = IF readable THEN "loop" ELSE next_iteration
    /\ UNCHANGED <<prog, cred, faults, listing, fs, image_files,
                   successful_conversions, summary, fn>>

\* messages.create / requests.post returns or raises; "if description:"
LoopReturn ==
    /\ pc = "loop"
    /\ work[idx].st = "calling"
    /\ \E r \in BackendResponses(cred, faults) :
         LET save == r.kind = "text" /\ is_usable(prog, r.text)
         IN  /\ work' = [work EXCEPT
                           ![idx].resp = r,
                           ![idx].lines =
                               @ + error_lines(prog, response_failure(prog, r)),
                           ![idx].st = IF save THEN "saving" ELSE "done",
                           ![idx].result = IF save THEN @ ELSE "False"]
             /\ idx' = IF save \/ idx = Len(image_files) THEN idx ELSE idx + 1
             /\ pc' = IF save THEN "loop" ELSE next_iteration
    /\ UNCHANGED <<prog, cred, faults, listing, fs, image_files,
                   successful_conversions, summary, fn>>

\* output_file = image_file.with_suffix('.md'); open + write; an exception is logged
LoopSave ==
    /\ pc = "loop"
    /\ work[idx].st = "saving"
    /\ LET t == work[idx].resp.text
           path == output_path(prog, image_files[idx].name)
       IN  \E o \in SaveOutcomes(t, faults) :
             /\ fs' = write_file(fs, path, t, o)
             /\ work' = [work EXCEPT
                           ![idx].writes = @ + 1,
                           ![idx].saved = IF write_ok(t, o) THEN "ok" ELSE "failed",
                           ![idx].lines =
                               @ + error_lines(prog, IF write_ok(t, o) THEN "" ELSE "save"),
                           ![idx].st = "done",
                           ![idx].result = IF write_ok(t, o) THEN "True" ELSE "False"]
    /\ idx' = IF idx = Len(image_files) THEN idx ELSE idx + 1
    /\ pc' = next_iteration
    /\ UNCHANGED <<prog, cred, faults, listing, image_files,
                   successful_conversions, summary, fn>>

(***************************************************************************)
(* Specifications.                                                         *)
(***************************************************************************)
Next ==
    \/ Makedirs
    \/ ChooseModel
    \/ Enumerate
    \/ Submit
    \/ \E i \in Tasks : WorkerStart(i)
    \/ \E i \in Tasks : WorkerReturn(i)
    \/ \E i \in Tasks : WorkerSave(i)
    \/ \E i \in Tasks : Collect(i)
    \/ Summary
    \/ LoopStart
    \/ LoopReturn
    \/ LoopSave

\* runs over every small directory, with every fault
Spec == Init /\ [][Next]_vars

\* runs over a directory of more images than the pool has workers
SpecCap == InitCap /\ [][Next]_vars

\* the directories of Spec and of SpecCap
InitLive == Init \/ InitCap

\* what the interpreter and the backend are taken to guarantee once the images
\* are enumerated: the main thread goes on with its next statement, a free pool
\* thread takes the head of the queue, every backend call returns or raises,
\* every write returns. Nothing is taken of the user at the model prompt.
Fairness ==
    /\ WF_vars(Submit)
    /\ WF_vars(\E i \in Tasks : WorkerStart(i))
    /\ \A i \in 1..(MaxEntries + NumCapTasks) :
         /\ WF_vars(i \in Tasks /\ WorkerReturn(i))
         /\ WF_vars(i \in Tasks /\ WorkerSave(i))
    /\ WF_vars(\E i \in Tasks : Collect(i))
    /\ WF_vars(Summary)
    /\ WF_vars(LoopStart)
    /\ WF_vars(LoopReturn)
    /\ WF_vars(LoopSave)

\* the runs of Spec and SpecCap in which no thread stops for ever
SpecLive == InitLive /\ [][Next]_vars /\ Fairness

(***************************************************************************)
(* The pure functions on their own: get_mime_type and the artifact writer  *)
(* applied to file names and texts the pipeline does not produce.          *)
(***************************************************************************)
FnNames ==
    { <<"a">> \o EXT_JPG,
      <<"b">> \o EXT_JPEG,
      <<"c">> \o EXT_GIF,
      <<"d">> \o EXT_WEBP,
      <<"Q", ".", "P", "N", "G">>,
      <<"G", ".", "J", "p", "E", "g">>,
      <<"W", ".", "W", "E", "B", "P">>,
      <<"e", ".", "t", "a", "r", ".", "P", "N", "G">>,
      <<"n", ".", "t", "x", "t">>,
      <<"r">>,
      <<"p", "n", "g">>,
      <<"h", ".">>,
      EXT_PNG }

FnTexts == { <<>>, <<32>>, <<35>>, <<233>>, <<8364>>, <<35, 10, 233>>, <<55296>> }

InitFn ==
    /\ prog \in Progs
    /\ cred = "valid"
    /\ faults \in { {}, AllFaults }
    /\ listing = <<>>
    /\ pc = "harness"
    /\ image_files = <<>>
    /\ work = <<>>
    /\ idx = 1
    /\ successful_conversions = 0
    /\ summary = NoSummary
    /\ \E name \in FnNames, t \in FnTexts, existed \in BOOLEAN, name2 \in FnNames :
         /\ fn = [step |-> "path", name |-> name, text |-> t, mime |-> "", oks |-> <<>>,
                  existed |-> existed, name2 |-> name2, out |-> <<>>, out2 |-> <<>>]
         /\ fs = IF existed THEN [q \in {output_path(prog, name)} |-> OldContent]
                 ELSE EmptyFs

\* the output paths of two sources of one directory:
\* os.path.join(output_dir, Path(image_path).stem + "_popis.md") /
\* image_file.with_suffix('.md')
FnPath ==
    /\ fn.step = "path"
    /\ fn' = [fn EXCEPT !.step = "mime",
                        !.out = output_path(prog, fn.name),
                        !.out2 = output_path(prog, fn.name2)]
    /\ UNCHANGED <<prog, cred, faults, listing, fs, pc, image_files, work, idx,
                   successful_conversions, summary>>

\* mime_type = self.get_mime_type(image_path)
FnMime ==
    /\ fn.step = "mime"
    /\ fn' = [fn EXCEPT !.step = "write", !.mime = get_mime_type(prog, fn.name)]
    /\ UNCHANGED <<prog, cred, faults, listing, fs, pc, image_files, work, idx,
                   successful_conversions, summary>>

\* one more write of the same text to the output path of the same source
FnWrite ==
    /\ fn.step = "write"
    /\ Len(fn.oks) < MaxWrites
    /\ \E o \in SaveOutcomes(fn.text, faults) :
         /\ fs' = write_file(fs, output_path(prog, fn.name), fn.text, o)
         /\ fn' = [fn EXCEPT !.oks = Append(@, write_ok(fn.text, o))]
    /\ UNCHANGED <<prog, cred, faults, listing, pc, image_files, work, idx,
                   successful_conversions, summary>>

NextFn == FnPath \/ FnMime \/ FnWrite

SpecFn == InitFn /\ [][NextFn]_vars

(***************************************************************************)
(* Properties.                                                             *)
(***************************************************************************)
\* the run has enumerated at least one image and has ended: the summary is
\* printed (img2md_g.py) or the for loop is over (images.py, img2md_m.py)
BatchOver == pc = "done" /\ Tasks # {}

\* task i went through every stage without an error of its own
CleanRun(i) ==
    /\ work[i].reads = 1
    /\ work[i].calls = 1
    /\ work[i].resp.kind = "text"
    /\ is_usable(prog, work[i].resp.text)
    /\ work[i].saved = "ok"

\* C1: the summary of the batch scheduler reports totalCount = N, the number of
\* enumerated images (N >= 1), successCount + failureCount = N and
\* 0 <= successCount <= N, whatever the order in which the workers completed.
C1_SummaryCounts ==
    summary.printed =>
        /\ Len(image_files) >= 1
        /\ summary.totalCount = Len(image_files)
        /\ summary.successCount + summary.failureCount = Len(image_files)
        /\ 0 <= summary.successCount
        /\ summary.successCount <= Len(image_files)
        /\ 0 <= summary.failureCount

\* a summary of three images: the third converted, the other two failed
C1_Witness ==
    /\ summary.printed
    /\ summary.totalCount = 3
    /\ summary.successCount = 1
    /\ summary.failureCount = 2
    /\ work[3].result = "True"

\* C2: a failure of one task, at the read, at the backend call or at the write,
\* never keeps another task of the run from being dispatched and from producing
\* its own result: the run never dies after enumeration, and when the batch is
\* over every enumerated task was dispatched once and its result is a success
\* exactly if its own stages went without error.
C2_FailureIsolation ==
    /\ pc = "crashed" => Tasks = {}
    /\ BatchOver =>
         \A i \in Tasks :
            /\ work[i].dispatched = 1
            /\ work[i].st = "done"
            /\ work[i].result \in {"True", "False"}
            /\ work[i].result = "True" <=> CleanRun(i)

\* three tasks, the backend call of the second raises, the first and the third succeed
C2_Witness ==
    /\ BatchOver
    /\ Len(image_files) = 3
    /\ work[2].resp.kind = "error"
    /\ work[1].result = "True"
    /\ work[3].result = "True"

\* C3: never more backend calls in flight than the pool has workers (4); in the
\* two sequential programs never more than one.
C3_ConcurrencyCap ==
    /\ Cardinality(InFlight) <= max_workers
    /\ prog # "g" => Cardinality(InFlight) <= 1

\* the pool is full: 4 calls in flight and a fifth task waits in the queue
C3_Witness ==
    /\ prog = "g"
    /\ Cardinality(InFlight) = max_workers
    /\ \E i \in Tasks : work[i].st = "queued"

\* C5: every enumerated image is handed to a worker exactly once and yields
\* exactly one result, which the scheduler consumes exactly once; no image is
\* enumerated twice and none is skipped.
C5_ExactlyOnce ==
    /\ \A i, j \in Tasks : i # j => image_files[i] # image_files[j]
    /\ \A i \in Tasks :
         /\ work[i].dispatched <= 1
         /\ work[i].reads <= 1
         /\ work[i].collected <= 1
         /\ work[i].collected = 1 => work[i].result # "pending"
    /\ BatchOver =>
         \A i \in Tasks :
            /\ work[i].dispatched = 1
            /\ work[i].reads = 1
            /\ work[i].result # "pending"
            /\ prog = "g" => work[i].collected = 1

\* the pool program is over with three images, each dispatched and collected once
C5_Witness ==
    /\ BatchOver
    /\ prog = "g"
    /\ Len(image_files) = 3
    /\ \A i \in Tasks : work[i].dispatched = 1 /\ work[i].collected = 1

\* the extensions section 6 of the specification lists for a program
RecognizedExtensions(p) ==
    IF p = "g" THEN {EXT_JPG, EXT_JPEG, EXT_PNG, EXT_GIF, EXT_WEBP}
    ELSE {EXT_JPG, EXT_JPEG, EXT_PNG}

\* the name ends, whatever the case of its letters, in a dot and the letters of ext
HasExt(name, ext) == Len(name) > Len(ext) /\ endswith(lower(name), ext)

\* a regular file whose extension the program recognizes
IsImageFile(p, e) == e.is_file /\ \E ext \in RecognizedExtensions(p) : HasExt(e.name, ext)

\* the main thread is past the enumeration block
PastEnumeration == pc \in {"submit", "collect", "loop"} \/ Tasks # {}

\* C4: in each of the three programs a backend call that returns an empty or
\* whitespace-only text is a failure: the task is not a success and no artifact
\* is written for it.
C4_BlankIsFailure ==
    \A i \in Tasks :
        (work[i].resp.kind = "text" /\ strip(work[i].resp.text) = <<>>) =>
            /\ work[i].st = "done"
            /\ work[i].result = "False"
            /\ work[i].writes = 0

\* C6: a directory without any regular file of a supported extension gives zero
\* tasks: no worker, no backend call, no artifact, and the run ends normally.
C6_NothingToDo ==
    (\A k \in DOMAIN listing : ~IsImageFile(prog, listing[k])) =>
        /\ image_files = <<>>
        /\ Tasks = {}
        /\ pc \notin {"submit", "collect", "loop"}

\* what the mime type of a file name is to be
MimeTable(p, name) ==
    IF HasExt(name, EXT_JPG) \/ HasExt(name, EXT_JPEG) THEN "image/jpeg"
    ELSE IF HasExt(name, EXT_PNG) THEN "image/png"
    ELSE IF p = "g" /\ HasExt(name, EXT_GIF) THEN "image/gif"
    ELSE IF p = "g" /\ HasExt(name, EXT_WEBP) THEN "image/webp"
    ELSE "image/jpeg"

\* C7: the mime type is a total function of the extension, compared without
\* regard to case: .jpg and .jpeg give image/jpeg, .png gives image/png, in
\* img2md_g.py .gif gives image/gif and .webp image/webp, and every other
\* extension, none included, gives image/jpeg.
C7_MimeType ==
    fn.step = "write" =>
        /\ fn.mime \in {"image/jpeg", "image/png", "image/gif", "image/webp"}
        /\ fn.mime = MimeTable(prog, fn.name)

\* an upper-case extension is recognized
C7_Witness ==
    /\ fn.step = "write"
    /\ fn.name = <<"Q", ".", "P", "N", "G">>
    /\ fn.mime = "image/png"

\* C8: after a write that succeeded the file holds the text, whatever it held
\* before; and a second write of the same text to the same path is not refused:
\* without an I/O fault it succeeds as the first did.
C8_WriterOverwrites ==
    LET path == output_path(prog, fn.name)
        n == Len(fn.oks)
    IN  /\ (n >= 1 /\ fn.oks[n]) =>
              /\ path \in DOMAIN fs
              /\ fs[path] = utf8_encode(fn.text)
              /\ utf8_decode(fs[path]) = fn.text
        /\ (faults = {} /\ n >= 2 /\ fn.oks[1]) => \A k \in 2..n : fn.oks[k]

\* a file that existed is written twice with the same three-character text
C8_Witness ==
    /\ fn.existed
    /\ fn.text = <<35, 10, 233>>
    /\ Len(fn.oks) = 2
    /\ fn.oks[1] /\ fn.oks[2]
    /\ utf8_decode(fs[output_path(prog, fn.name)]) = fn.text

\* C9: the enumerator returns an entry of the directory if and only if it is a
\* regular file whose extension, compared without regard to case, is supported.
C9_EnumeratesImageFiles ==
    PastEnumeration =>
        \A k \in DOMAIN listing :
            (\E i \in DOMAIN image_files : image_files[i] = listing[k])
                <=> IsImageFile(prog, listing[k])

\* C10: with a credential that is not valid the run aborts before any task:
\* no file is read, no backend call is made, no artifact is written.
C10_ConfigErrorIsFatal ==
    cred # "valid" =>
        \A i \in Tasks : work[i].reads = 0 /\ work[i].calls = 0 /\ work[i].writes = 0

\* where the artifact of a source is to go
DerivedPath(p, name) ==
    IF p = "g" THEN OUTPUT_DIR \o stem(name) \o POPIS_MD ELSE stem(name) \o EXT_MD

\* C11: the output path is a function of the source file name alone, the stem
\* with .md beside the source or the stem with _popis.md under vystupy/, and
\* two sources of one directory with distinct stems get distinct output paths.
C11_OutputPath ==
    fn.step \in {"mime", "write"} =>
        /\ fn.out = DerivedPath(prog, fn.name)
        /\ fn.out2 = DerivedPath(prog, fn.name2)
        /\ stem(fn.name) # stem(fn.name2) => fn.out # fn.out2

\* e.tar.PNG and n.txt: distinct stems, distinct outputs
C11_Witness ==
    /\ fn.step = "write"
    /\ fn.name = <<"e", ".", "t", "a", "r", ".", "P", "N", "G">>
    /\ fn.name2 = <<"n", ".", "t", "x", "t">>
    /\ fn.out # fn.out2

\* task i has ended in a failure
Failed(i) == work[i].st = "done" /\ work[i].result = "False"

\* C12: every task that ends in a failure, whatever its cause, has at least one
\* console or log line that reports it and names the file, in each program.
C12_FailureIsLogged ==
    \A i \in Tasks : Failed(i) => work[i].lines >= 1

\* C13: the worker makes a single attempt: the backend is called at most once
\* per task, once when the read succeeded and not at all when it failed, and a
\* call that failed is not sent again.
C13_SingleAttempt ==
    /\ \A i \in Tasks :
         /\ work[i].calls <= 1
         /\ work[i].read = "failed" => work[i].calls = 0
         /\ work[i].read = "ok" => work[i].calls = 1
         /\ work[i].resp.kind # "none" => work[i].calls = 1
    /\ BatchOver => \A i \in Tasks : work[i].read # "no"

\* the batch is over: one image could not be read and was not sent, the call
\* for another raised and was sent once
C13_Witness ==
    /\ BatchOver
    /\ \E i, j \in Tasks :
         /\ work[i].read = "failed" /\ work[i].calls = 0
         /\ work[j].resp.kind = "error" /\ work[j].calls = 1

\* what made task i fail: section 4.3 and 7 of the specification
Cause(i) ==
    IF work[i].read = "failed" THEN "IOError"
    ELSE IF work[i].resp.kind = "error" THEN work[i].resp.err
    ELSE IF work[i].resp.kind = "text" /\ ~is_usable(prog, work[i].resp.text)
         THEN "InvalidResponse"
    ELSE IF work[i].saved = "failed" THEN "IOError"
    ELSE "none"

\* C14: the result a worker returns for a failure identifies its cause, so two
\* failures of distinct causes are distinct results for the scheduler.
C14_FailureKinds ==
    \A i, j \in Tasks :
        (Failed(i) /\ Failed(j) /\ Cause(i) # Cause(j)) =>
            work[i].result # work[j].result

\* the tasks whose result is a success
Succeeded == { i \in Tasks : work[i].result = "True" }

\* a step of the main thread that takes one finished result from as_completed
DrainStep ==
    /\ pc = "collect"
    /\ \E i \in Tasks :
         /\ work[i].st = "done"
         /\ work[i].collected = 0
         /\ work' = [work EXCEPT ![i].collected = 1]
         /\ successful_conversions' =
              successful_conversions + (IF work[i].result = "True" THEN 1 ELSE 0)

\* C15: the success counter changes only in a step of the main thread that
\* drains one finished result, never in a worker step; at every moment it is
\* the number of drained successes, and the summary reports the number of
\* workers that returned success, whatever the order of completion.
C15_CounterOnDrainPath ==
    /\ [](successful_conversions =
            Cardinality({ i \in Succeeded : work[i].collected >= 1 }))
    /\ [](summary.printed => summary.successCount = Cardinality(Succeeded))
    /\ [][successful_conversions' # successful_conversions => DrainStep]_vars

\* the main thread has drained one success while a second success waits to be
\* drained and a third task is still at the backend
C15_Witness ==
    /\ prog = "g"
    /\ pc = "collect"
    /\ successful_conversions = 1
    /\ \E i, j, k \in Tasks :
         /\ work[i].result = "True" /\ work[i].collected = 1
         /\ work[j].result = "True" /\ work[j].collected = 0
         /\ work[k].st = "calling"

\* C16: the summary is printed only after every submitted task has produced its
\* result and the main thread has taken it: no task is new, queued, at the
\* backend or saving in a state where the summary is out.
C16_SummaryAfterAll ==
    summary.printed =>
        \A i \in Tasks :
            /\ work[i].st = "done"
            /\ work[i].result \in {"True", "False"}
            /\ work[i].collected = 1

\* the summary of a run of two images, both converted
C16_Witness ==
    /\ summary.printed
    /\ Len(image_files) = 2
    /\ Succeeded = {1, 2}

\* task i is writing its output file or has written it
Writes(i) == work[i].st = "saving" \/ work[i].writes >= 1

\* C17: no two distinct images of one run write to the same output path.
C17_DistinctOutputs ==
    \A i, j \in Tasks :
        (i # j /\ Writes(i) /\ Writes(j)) =>
            output_path(prog, image_files[i].name) #
                output_path(prog, image_files[j].name)

\* the tasks whose output file was written in full
Saved == { i \in Tasks : work[i].saved = "ok" }

\* C18: in the batch scheduler the result of a finished task is a success if
\* and only if the backend returned usable text and the write of its output
\* went without error; a failed write is a failed conversion, and the summary
\* counts as successes exactly the writes that succeeded.
C18_SuccessIsSavedWrite ==
    prog = "g" =>
        /\ \A i \in Tasks :
             work[i].st = "done" =>
                /\ work[i].result = "True" <=>
                      /\ work[i].resp.kind = "text"
                      /\ is_usable(prog, work[i].resp.text)
                      /\ work[i].saved = "ok"
                /\ work[i].saved = "failed" => work[i].result = "False"
        /\ summary.printed =>
             /\ summary.successCount = Cardinality(Saved)
             /\ summary.failureCount = Cardinality(Tasks \ Saved)

\* the summary of two images with usable text, one write failed
C18_Witness ==
    /\ summary.printed
    /\ Len(image_files) = 2
    /\ summary.successCount = 1
    /\ \E i, j \in Tasks :
         /\ work[i].saved = "failed" /\ is_usable(prog, work[i].resp.text)
         /\ work[j].saved = "ok"

\* the paths a step creates or changes
Touched == { q \in DOMAIN fs' : q \notin DOMAIN fs \/ fs'[q] # fs[q] }

\* the step is the write of the output of task i, whose backend call returned text
SaveStepOf(i) ==
    /\ work[i].st = "saving"
    /\ work[i].resp.kind = "text"
    /\ work'[i].writes = work[i].writes + 1

\* task i fails in this step at the read or at the backend call
FailsBeforeSave(i) ==
    /\ i \in DOMAIN work'
    /\ work[i].st \in {"new", "queued", "calling"}
    /\ work'[i].st = "done"

\* a step deletes no file, creates or changes only files of the set allowed and
\* the derived output of a task it saves, and changes nothing when a task fails
\* in it at the read or at the backend call
FrameStep(allowed) ==
    /\ DOMAIN fs \subseteq DOMAIN fs'
    /\ \A q \in Touched :
         \/ q \in allowed
         \/ \E i \in Tasks :
              SaveStepOf(i) /\ q = output_path(prog, image_files[i].name)
    /\ \A i \in Tasks : FailsBeforeSave(i) => fs' = fs

\* no enumerated source image is among the files the run has written
SourcesUntouched ==
    \A i \in DOMAIN image_files : image_files[i].name \notin DOMAIN fs

Finished ==
    /\ pc = "done"
    /\ \A i \in Tasks : work[i].st = "done"
    /\ prog = "g" => summary.printed

\* C20: when every backend call returns or raises and the pool threads are
\* scheduled fairly, a run that has enumerated its images comes to a state
\* where every task is done and the summary (the end of the loop in the
\* sequential programs) is reached; no task stays in the queue for ever, also
\* with more tasks than the pool has workers.
C20_Termination == PastEnumeration ~> Finished

\* a pool run of more images than workers has ended with its summary
C20_Witness ==
    /\ prog = "g"
    /\ Finished
    /\ Len(image_files) > max_workers
    /\ summary.totalCount = Len(image_files)

=============================================================================
